---- MODULE Spec2Model ----
(***************************************************************************)
(* E20 processor simulator with a one- or two-level set-associative cache  *)
(* (simcache.cpp).  The cache object (Cache::loadWord, Cache::storeWord)   *)
(* and the fetch-execute loop of main are modelled as state machines.      *)
(*                                                                         *)
(*   SpecCache : one Cache object driven by arbitrary loadWord/storeWord   *)
(*               calls on a bounded address set.                           *)
(*   Spec      : the whole machine running a program image drawn from a    *)
(*               bounded set of instruction words.                         *)
(***************************************************************************)
EXTENDS Integers, Sequences, FiniteSets, TLC

VARIABLES
    pc,        \* uint16_t pc
    regs,      \* uint16_t regs[NUM_REGS]
    memory,    \* uint16_t memory[MEM_SIZE]; cells absent from the map hold 0
    isHalt,    \* bool isHalt
    l1Cache,   \* Cache l1Cache
    l2Cache,   \* Cache *l2Cache (NoCache models nullptr)
    log,       \* the lines print_log_entry has written to stdout
    steps,     \* iterations of the fetch-execute loop taken so far
    calls      \* the loadWord/storeWord calls made on the cache object, with results

vars == <<pc, regs, memory, isHalt, l1Cache, l2Cache, log, steps, calls>>

----------------------------------------------------------------------------
(* Program constants *)

NUM_REGS == 8
MEM_SIZE == 8192
REG_SIZE == 65536

(* Bounds of the model *)

\* calls made on the cache object under SpecCache
MaxCalls == 5
\* words of the program image loaded at address 0 under Spec
ProgLen == 3
\* iterations of the fetch-execute loop under Spec
MaxSteps == 5
\* addresses 0..MaxDecodeAddr are used to compare address decompositions
MaxDecodeAddr == 15

----------------------------------------------------------------------------
(* The cache: struct CacheBlock, struct CacheRow, struct Cache *)

NoCache == [cacheSize |-> 0, associativity |-> 0, blocksize |-> 0,
            numRows |-> 0, rows |-> <<>>]

CacheBlock == [valid |-> FALSE, tag |-> 0, lru |-> 0]

CacheRow(associativity) == [i \in 0..(associativity - 1) |-> CacheBlock]

Cache(size, assoc, bsize) ==
    LET numRows == size \div (assoc * bsize)
    IN  [cacheSize |-> size, associativity |-> assoc, blocksize |-> bsize,
         numRows |-> numRows,
         rows |-> [r \in 0..(numRows - 1) |-> CacheRow(assoc)]]

\* uint16_t tag = (address / blocksize) / numRows;
TagOf(c, address) == ((address \div c.blocksize) \div c.numRows) % REG_SIZE

\* RowIndexOf without the division by the block size
RowIndexNoBlock(c, address) == address % c.numRows

\* rowIndex = (address / blocksize) % numRows;
RowIndexOf(c, address) == (address \div c.blocksize) % c.numRows

\* Touched without the reset of lru
Untouched(block) == block

\* The line a hit or an install leaves behind: lru = 0.
Touched(block) == [block EXCEPT !.lru = 0]

\* What the hit branch does to the lines other than the hit one.
HitAgeOthers(blocks, i) ==
    [j \in DOMAIN blocks |->
        IF j = i THEN Touched(blocks[j]) ELSE [blocks[j] EXCEPT !.lru = @ + 1]]

\* The first loop of loadWord, from slot i on: age slot i, test it, and on a
\* match reset it, age every other slot once more and return 1.
RECURSIVE HitScan(_, _, _, _)
HitScan(blocks, tag, i, associativity) ==
    IF i >= associativity
    THEN [blocks |-> blocks, hit |-> 0]
    ELSE LET aged == [blocks EXCEPT ![i].lru = @ + 1]
         IN  IF aged[i].valid /\ aged[i].tag = tag
             THEN [blocks |-> HitAgeOthers(aged, i), hit |-> 1]
             ELSE HitScan(aged, tag, i + 1, associativity)

\* OlderThan with >= in place of >
OlderOrEqual(lru, maxLRU) == lru >= maxLRU

\* The comparison of the second loop of loadWord.
OlderThan(lru, maxLRU) == lru > maxLRU

\* MaxScan without the update of maxLRU
RECURSIVE MaxScanKeepsMax(_, _, _, _, _)
MaxScanKeepsMax(blocks, i, associativity, lruIndex, maxLRU) ==
    IF i >= associativity
    THEN lruIndex
    ELSE IF OlderThan(blocks[i].lru, maxLRU)
         THEN MaxScanKeepsMax(blocks, i + 1, associativity, i, maxLRU)
         ELSE MaxScanKeepsMax(blocks, i + 1, associativity, lruIndex, maxLRU)

\* The second loop of loadWord: the first slot holding the largest lru.
RECURSIVE MaxScan(_, _, _, _, _)
MaxScan(blocks, i, associativity, lruIndex, maxLRU) ==
    IF i >= associativity
    THEN lruIndex
    ELSE IF OlderThan(blocks[i].lru, maxLRU)
         THEN MaxScan(blocks, i + 1, associativity, i, blocks[i].lru)
         ELSE MaxScan(blocks, i + 1, associativity, lruIndex, maxLRU)

\* Install without valid = true
InstallKeepsValid(blocks, lruIndex, tag) ==
    [blocks EXCEPT ![lruIndex] = [valid |-> @.valid, tag |-> tag, lru |-> 0]]

\* valid = true; tag = tag; lru = 0
Install(blocks, lruIndex, tag) ==
    [blocks EXCEPT ![lruIndex] = [valid |-> TRUE, tag |-> tag, lru |-> 0]]

\* int Cache::loadWord(uint16_t address, int &rowIndex)
LoadWord(c, address) ==
    LET tag == TagOf(c, address)
        rowIndex == RowIndexOf(c, address)
        scan == HitScan(c.rows[rowIndex], tag, 0, c.associativity)
    IN  IF scan.hit = 1
        THEN [cache |-> [c EXCEPT !.rows[rowIndex] = scan.blocks],
              hit |-> 1, rowIndex |-> rowIndex]
        ELSE LET lruIndex == MaxScan(scan.blocks, 0, c.associativity, -1, -1)
             IN  [cache |-> [c EXCEPT !.rows[rowIndex] =
                                 Install(scan.blocks, lruIndex, tag)],
                  hit |-> 0, rowIndex |-> rowIndex]

\* StoreScan that keeps the first invalid slot it meets as the candidate
RECURSIVE StoreScanFirstInvalid(_, _, _, _, _)
StoreScanFirstInvalid(blocks, i, associativity, lruIndex, maxLRU) ==
    IF i >= associativity
    THEN [blocks |-> blocks, lruIndex |-> lruIndex]
    ELSE LET aged == [blocks EXCEPT ![i].lru = @ + 1]
             free == lruIndex = -1 \/ blocks[lruIndex].valid
         IN  IF free /\ ((~blocks[i].valid) \/ blocks[i].lru > maxLRU)
             THEN StoreScanFirstInvalid(aged, i + 1, associativity, i, blocks[i].lru)
             ELSE StoreScanFirstInvalid(aged, i + 1, associativity, lruIndex, maxLRU)

\* StoreScan without the !valid test
RECURSIVE StoreScanIgnoresValid(_, _, _, _, _)
StoreScanIgnoresValid(blocks, i, associativity, lruIndex, maxLRU) ==
    IF i >= associativity
    THEN [blocks |-> blocks, lruIndex |-> lruIndex]
    ELSE LET aged == [blocks EXCEPT ![i].lru = @ + 1]
         IN  IF blocks[i].lru > maxLRU
             THEN StoreScanIgnoresValid(aged, i + 1, associativity, i, blocks[i].lru)
             ELSE StoreScanIgnoresValid(aged, i + 1, associativity, lruIndex, maxLRU)

\* The loop of storeWord: a slot becomes the candidate when it is invalid or
\* its lru (before its own increment) exceeds the candidate's; every slot ages.
RECURSIVE StoreScan(_, _, _, _, _)
StoreScan(blocks, i, associativity, lruIndex, maxLRU) ==
    IF i >= associativity
    THEN [blocks |-> blocks, lruIndex |-> lruIndex]
    ELSE LET aged == [blocks EXCEPT ![i].lru = @ + 1]
         IN  IF (~blocks[i].valid) \/ blocks[i].lru > maxLRU
             THEN StoreScan(aged, i + 1, associativity, i, blocks[i].lru)
             ELSE StoreScan(aged, i + 1, associativity, lruIndex, maxLRU)

\* StoreWord that installs over a valid line already carrying the tag
StoreWordTagAware(c, address) ==
    LET tag == TagOf(c, address)
        rowIndex == RowIndexOf(c, address)
        scan == StoreScan(c.rows[rowIndex], 0, c.associativity, -1, -1)
        same == { s \in 0..(c.associativity - 1) :
                    c.rows[rowIndex][s].valid /\ c.rows[rowIndex][s].tag = tag }
        slot == IF same = {} THEN scan.lruIndex
                ELSE CHOOSE s \in same : \A t \in same : s <= t
    IN  [cache |-> [c EXCEPT !.rows[rowIndex] = Install(scan.blocks, slot, tag)],
         rowIndex |-> rowIndex]

\* void Cache::storeWord(uint16_t address, int &rowIndex)
StoreWord(c, address) ==
    LET tag == TagOf(c, address)
        rowIndex == RowIndexOf(c, address)
        scan == StoreScan(c.rows[rowIndex], 0, c.associativity, -1, -1)
    IN  [cache |-> [c EXCEPT !.rows[rowIndex] =
                        Install(scan.blocks, scan.lruIndex, tag)],
         rowIndex |-> rowIndex]

----------------------------------------------------------------------------
(* Instruction words: fields and 16-bit arithmetic *)

\* (instr >> 13) & 0x7
Opcode(instr) == (instr \div 8192) % 8
\* instr & 0x1FFF
Imm13(instr) == instr % 8192
\* (instr >> 10) & 0x7
RegA(instr) == (instr \div 1024) % 8
\* (instr >> 7) & 0x7
RegB(instr) == (instr \div 128) % 8
\* (instr >> 4) & 0x7
RegC(instr) == (instr \div 16) % 8
\* instr & 0xF
FunctionCode(instr) == instr % 16

\* uint16_t imm = instr & 0x7F; if (imm & 0x40) imm |= 0xFF80;
SignExtImm7(instr) ==
    LET imm == instr % 128
    IN  IF (imm \div 64) % 2 = 1 THEN imm + 65408 ELSE imm

\* bitwise | and & of two 16-bit values
RECURSIVE BitOr(_, _, _)
BitOr(a, b, n) ==
    IF n = 0 THEN 0
    ELSE (IF a % 2 = 1 \/ b % 2 = 1 THEN 1 ELSE 0)
         + 2 * BitOr(a \div 2, b \div 2, n - 1)

RECURSIVE BitAnd(_, _, _)
BitAnd(a, b, n) ==
    IF n = 0 THEN 0
    ELSE (IF a % 2 = 1 /\ b % 2 = 1 THEN 1 ELSE 0)
         + 2 * BitAnd(a \div 2, b \div 2, n - 1)

\* memory[a]
Mem(m, a) == IF a \in DOMAIN m THEN m[a] ELSE 0

\* memory[a] = v
MemStore(m, a, v) == [x \in (DOMAIN m) \cup {a} |-> IF x = a THEN v ELSE m[x]]

\* ZeroReg left out
ZeroRegSkipped(rg) == rg

\* regs[0] = 0;
ZeroReg(rg) == [rg EXCEPT ![0] = 0]

\* one line of print_log_entry
LogEntry(cache_name, status, pcv, addr, row) ==
    [cache |-> cache_name, status |-> status, pc |-> pcv, addr |-> addr, row |-> row]

\* what print_state writes: pc, the registers and the memory.  No statement of
\* main calls print_state (the call at line 567 is commented out).
FinalStateLine(pcv, rg, m) ==
    [cache |-> "Final state", pc |-> pcv, regs |-> rg, memory |-> m]

----------------------------------------------------------------------------
(* execute_instruction: add, sub, or, and, slt, jr *)

ExecuteInstruction(instr, rg, pcv) ==
    LET functionCode == FunctionCode(instr)
        a == rg[RegA(instr)]
        b == rg[RegB(instr)]
        regDst == RegC(instr)
        rg1 == CASE functionCode = 0 -> [rg EXCEPT ![regDst] = (a + b) % REG_SIZE]
                 [] functionCode = 1 -> [rg EXCEPT ![regDst] = (a - b) % REG_SIZE]
                 [] functionCode = 2 -> [rg EXCEPT ![regDst] = BitOr(a, b, 16)]
                 [] functionCode = 3 -> [rg EXCEPT ![regDst] = BitAnd(a, b, 16)]
                 [] functionCode = 4 -> [rg EXCEPT ![regDst] = IF a < b THEN 1 ELSE 0]
                 [] OTHER -> rg
        pc1 == IF functionCode = 8 THEN (a - 1) % REG_SIZE ELSE pcv
    IN  [regs |-> ZeroReg(rg1), pc |-> (pc1 + 1) % REG_SIZE]

----------------------------------------------------------------------------
(* execute_imm_instruction: slti, lw, sw, jeq, addi *)

\* (regs[regAddr] + imm) & 0x1FFF
EffectiveAddress(base, imm) == (base + imm) % MEM_SIZE

\* L2Consulted with the test of hit inverted
L2OnHit(hit, l2) == hit = 1 /\ l2 # NoCache

\* L2Consulted without the test of hit
L2Always(hit, l2) == l2 # NoCache

\* if (!hit && l2Cache)
L2Consulted(hit, l2) == hit = 0 /\ l2 # NoCache

\* SwSource reading the base register field
SwSourceBase(instr) == RegA(instr)

\* the register whose value store-word writes: (instr >> 7) & 0x7
SwSource(instr) == RegB(instr)

\* SltiResult comparing with the low 7 bits of the immediate only
SltiLow7(src, imm) == IF src < (imm % 128) THEN 1 ELSE 0

\* (static_cast<unsigned>(regs[regSrc]) < static_cast<unsigned>(imm)) ? 1 : 0,
\* imm being the immediate after the sign extension made before the switch
SltiResult(src, imm) == IF src < imm THEN 1 ELSE 0

\* case opcodeLw
ExecuteLw(instr, rg, pcv, m, l1, l2) ==
    LET regDst == RegB(instr)
        address == EffectiveAddress(rg[RegA(instr)], SignExtImm7(instr))
        r1 == LoadWord(l1, address)
        e1 == LogEntry("L1", IF r1.hit = 1 THEN "HIT" ELSE "MISS", pcv, address, r1.rowIndex)
        toL2 == L2Consulted(r1.hit, l2)
        r2 == IF toL2 THEN LoadWord(l2, address)
                      ELSE [cache |-> l2, hit |-> r1.hit, rowIndex |-> 0]
        e2 == LogEntry("L2", IF r2.hit = 1 THEN "HIT" ELSE "MISS", pcv, address, r2.rowIndex)
        hit == r2.hit
        rg1 == IF hit = 0 THEN [rg EXCEPT ![regDst] = Mem(m, address)] ELSE rg
    IN  [regs |-> ZeroReg(rg1), pc |-> (pcv + 1) % REG_SIZE, memory |-> m,
         l1 |-> r1.cache, l2 |-> r2.cache,
         out |-> IF toL2 THEN <<e1, e2>> ELSE <<e1>>]

\* case opcodeSw
ExecuteSw(instr, rg, pcv, m, l1, l2) ==
    LET storeAddr == EffectiveAddress(rg[RegA(instr)], SignExtImm7(instr))
        address == EffectiveAddress(rg[RegA(instr)], SignExtImm7(instr))
        m1 == MemStore(m, storeAddr, rg[SwSource(instr)])
        r1 == StoreWord(l1, address)
        e1 == LogEntry("L1", "SW", pcv, address, r1.rowIndex)
        r2 == IF l2 # NoCache THEN StoreWord(l2, address)
                              ELSE [cache |-> l2, rowIndex |-> 0]
        e2 == LogEntry("L2", "SW", pcv, address, r2.rowIndex)
    IN  [regs |-> ZeroReg(rg), pc |-> (pcv + 1) % REG_SIZE, memory |-> m1,
         l1 |-> r1.cache, l2 |-> r2.cache,
         out |-> IF l2 # NoCache THEN <<e1, e2>> ELSE <<e1>>]

ExecuteImmInstruction(instr, rg, pcv, m, l1, l2) ==
    LET opcode == Opcode(instr)
        regSrc == RegA(instr)
        regDst == RegB(instr)
        imm == SignExtImm7(instr)
        same == [regs |-> ZeroReg(rg), pc |-> (pcv + 1) % REG_SIZE, memory |-> m,
                 l1 |-> l1, l2 |-> l2, out |-> <<>>]
    IN  CASE opcode = 7 ->
                [same EXCEPT !.regs =
                    ZeroReg([rg EXCEPT ![regDst] = SltiResult(rg[regSrc], imm)])]
          [] opcode = 4 -> ExecuteLw(instr, rg, pcv, m, l1, l2)
          [] opcode = 5 -> ExecuteSw(instr, rg, pcv, m, l1, l2)
          [] opcode = 6 ->
                IF rg[regSrc] = rg[regDst]
                THEN [same EXCEPT !.pc = (pcv + 1 + imm) % REG_SIZE]
                ELSE same
          [] opcode = 1 ->
                [same EXCEPT !.regs =
                    ZeroReg([rg EXCEPT ![regDst] = (rg[regSrc] + imm) % REG_SIZE])]
          [] OTHER -> same

----------------------------------------------------------------------------
(* execute_control_instruction: j, jal *)

\* JalLink without the + 1
JalLinkSelf(pcv) == pcv

\* regs[7] = pc + 1;
JalLink(pcv) == (pcv + 1) % REG_SIZE

ExecuteControlInstruction(instr, rg, pcv, halt) ==
    LET opcode == Opcode(instr)
        imm == Imm13(instr)
    IN  CASE opcode = 2 ->
                IF imm = pcv
                THEN [regs |-> ZeroReg(rg), pc |-> pcv, isHalt |-> TRUE]
                ELSE [regs |-> ZeroReg(rg), pc |-> imm, isHalt |-> halt]
          [] opcode = 3 ->
                [regs |-> ZeroReg([rg EXCEPT ![7] = JalLink(pcv)]), pc |-> imm,
                 isHalt |-> halt]
          [] OTHER -> [regs |-> ZeroReg(rg), pc |-> pcv, isHalt |-> halt]

----------------------------------------------------------------------------
(* main: the fetch-execute loop *)

\* uint16_t instr = memory[pc & 8191];
Fetch == Mem(memory, pc % MEM_SIZE)

\* SelfJump that also takes jump-and-link
SelfJumpAnyJump(instr, pcv) == Opcode(instr) \in {2, 3} /\ Imm13(instr) = pcv

\* if (opcode == opcodeJ && imm == pc)
SelfJump(instr, pcv) == Opcode(instr) = 2 /\ Imm13(instr) = pcv

Running == (~isHalt) /\ steps < MaxSteps

\* isHalt = true; continue;
Halt ==
    /\ Running
    /\ SelfJump(Fetch, pc)
    /\ isHalt' = TRUE
    /\ steps' = steps + 1
    /\ UNCHANGED <<pc, regs, memory, l1Cache, l2Cache, log, calls>>

\* opcode == opcodeFirst
StepInstruction ==
    /\ Running
    /\ ~SelfJump(Fetch, pc)
    /\ Opcode(Fetch) = 0
    /\ LET r == ExecuteInstruction(Fetch, regs, pc)
       IN  /\ regs' = r.regs
           /\ pc' = r.pc
    /\ steps' = steps + 1
    /\ UNCHANGED <<memory, isHalt, l1Cache, l2Cache, log, calls>>

\* opcode is slti, addi, lw, sw or jeq
StepImmInstruction ==
    /\ Running
    /\ ~SelfJump(Fetch, pc)
    /\ Opcode(Fetch) \in {7, 1, 4, 5, 6}
    /\ LET r == ExecuteImmInstruction(Fetch, regs, pc, memory, l1Cache, l2Cache)
       IN  /\ regs' = r.regs
           /\ pc' = r.pc
           /\ memory' = r.memory
           /\ l1Cache' = r.l1
           /\ l2Cache' = r.l2
           /\ log' = log \o r.out
    /\ steps' = steps + 1
    /\ UNCHANGED <<isHalt, calls>>

\* opcode is j or jal
StepControlInstruction ==
    /\ Running
    /\ ~SelfJump(Fetch, pc)
    /\ Opcode(Fetch) \in {2, 3}
    /\ LET r == ExecuteControlInstruction(Fetch, regs, pc, isHalt)
       IN  /\ regs' = r.regs
           /\ pc' = r.pc
           /\ isHalt' = r.isHalt
    /\ steps' = steps + 1
    /\ UNCHANGED <<memory, l1Cache, l2Cache, log, calls>>

\* instruction words by format
RType(a, b, d, f) == a * 1024 + b * 128 + d * 16 + f
IType(op, s, d, imm7) == op * 8192 + s * 1024 + d * 128 + imm7
JType(op, imm13) == op * 8192 + imm13

\* the instruction words program images are built from
Palette ==
    { RType(1, 2, 0, 1),      \* sub  $0, $1, $2
      RType(1, 2, 7, 2),      \* or   $7, $1, $2
      RType(7, 0, 0, 8),      \* jr   $7
      IType(1, 0, 1, 5),      \* addi $1, $0, 5
      IType(1, 1, 0, 127),    \* addi $0, $1, -1
      IType(7, 1, 2, 127),    \* slti $2, $1, 127
      IType(7, 0, 0, 1),      \* slti $0, $0, 1
      IType(7, 1, 2, 6),      \* slti $2, $1, 6
      IType(4, 0, 1, 0),      \* lw   $1, 0($0)
      IType(4, 0, 2, 127),    \* lw   $2, -1($0)
      IType(4, 1, 0, 1),      \* lw   $0, 1($1)
      IType(5, 0, 1, 127),    \* sw   $1, -1($0)
      IType(6, 0, 0, 127),    \* jeq  $0, $0, -1
      JType(2, 1),            \* j    1
      JType(3, 2) }           \* jal  2

\* --cache configurations: L1 alone, or L1 and L2
MachineConfigs ==
    { <<<<2, 1, 1>>>>, <<<<1, 1, 1>>, <<8, 2, 2>>>> }

Init ==
    /\ pc = 0
    /\ regs = [r \in 0..(NUM_REGS - 1) |-> 0]
    /\ \E prog \in [0..(ProgLen - 1) -> Palette] : memory = prog
    /\ isHalt = FALSE
    /\ \E cfg \in MachineConfigs :
          /\ l1Cache = Cache(cfg[1][1], cfg[1][2], cfg[1][3])
          /\ l2Cache = IF Len(cfg) = 2
                       THEN Cache(cfg[2][1], cfg[2][2], cfg[2][3])
                       ELSE NoCache
    /\ log = <<>>
    /\ steps = 0
    /\ calls = <<>>

Next ==
    \/ Halt
    \/ StepInstruction
    \/ StepImmInstruction
    \/ StepControlInstruction

Spec == Init /\ [][Next]_vars

----------------------------------------------------------------------------
(* SpecConfig: the machine started with any --cache triple(s), also those *)
(* whose row count size / (associativity * blocksize) is zero or fractional *)

\* --cache configurations whose row count is not a positive integer
MalformedConfigs ==
    { <<<<3, 2, 1>>>>, <<<<1, 2, 1>>>>, <<<<2, 1, 1>>, <<5, 2, 2>>>> }

ConfigInit ==
    /\ pc = 0
    /\ regs = [r \in 0..(NUM_REGS - 1) |-> 0]
    /\ \E prog \in [0..(ProgLen - 1) -> Palette] : memory = prog
    /\ isHalt = FALSE
    /\ \E cfg \in MachineConfigs \cup MalformedConfigs :
          /\ l1Cache = Cache(cfg[1][1], cfg[1][2], cfg[1][3])
          /\ l2Cache = IF Len(cfg) = 2
                       THEN Cache(cfg[2][1], cfg[2][2], cfg[2][3])
                       ELSE NoCache
    /\ log = <<>>
    /\ steps = 0
    /\ calls = <<>>

\* loadWord and storeWord divide by numRows: with numRows = 0 the behaviour of
\* a load-word or store-word is undefined, and the run is followed up to it.
AccessDefined ==
    Opcode(Fetch) \in {4, 5} =>
        (l1Cache.numRows # 0 /\ (l2Cache # NoCache => l2Cache.numRows # 0))

ConfigNext ==
    \/ Halt
    \/ StepInstruction
    \/ (AccessDefined /\ StepImmInstruction)
    \/ StepControlInstruction

SpecConfig == ConfigInit /\ [][ConfigNext]_vars

----------------------------------------------------------------------------
(* SpecCache: one Cache object under arbitrary calls *)

\* (size, associativity, blocksize) of the cache objects under test
CacheGeometries ==
    { <<1, 1, 1>>, <<2, 2, 1>>, <<3, 3, 1>>, <<4, 2, 1>>, <<4, 1, 2>> }

\* the addresses passed to loadWord and storeWord
CallAddrs == {0, 1, 2, 3}

CacheInit ==
    /\ pc = 0
    /\ regs = [r \in 0..(NUM_REGS - 1) |-> 0]
    /\ memory = <<>>
    /\ isHalt = FALSE
    /\ \E g \in CacheGeometries : l1Cache = Cache(g[1], g[2], g[3])
    /\ l2Cache = NoCache
    /\ log = <<>>
    /\ steps = 0
    /\ calls = <<>>

CallLoadWord(a) ==
    /\ Len(calls) < MaxCalls
    /\ LET r == LoadWord(l1Cache, a)
       IN  /\ l1Cache' = r.cache
           /\ calls' = Append(calls, [op |-> "lw", address |-> a,
                                      hit |-> r.hit, rowIndex |-> r.rowIndex])
    /\ UNCHANGED <<pc, regs, memory, isHalt, l2Cache, log, steps>>

CallStoreWord(a) ==
    /\ Len(calls) < MaxCalls
    /\ LET r == StoreWord(l1Cache, a)
       IN  /\ l1Cache' = r.cache
           /\ calls' = Append(calls, [op |-> "sw", address |-> a,
                                      hit |-> 0, rowIndex |-> r.rowIndex])
    /\ UNCHANGED <<pc, regs, memory, isHalt, l2Cache, log, steps>>

CacheNext ==
    \/ \E a \in CallAddrs : CallLoadWord(a)
    \/ \E a \in CallAddrs : CallStoreWord(a)

SpecCache == CacheInit /\ [][CacheNext]_vars

----------------------------------------------------------------------------
(* Properties of the cache object, checked under SpecCache *)

LastCall == calls[Len(calls)]

\* A valid line of address a's row carries a's tag.
Resident(c, a) ==
    \E s \in 0..(c.associativity - 1) :
        /\ c.rows[(a \div c.blocksize) % c.numRows][s].valid
        /\ c.rows[(a \div c.blocksize) % c.numRows][s].tag
               = (a \div c.blocksize) \div c.numRows

\* C2: a loadWord(A) that follows a loadWord(A) or storeWord(A) with no access
\* to A's row in between returns HIT and reports the row of that earlier call;
\* a loadWord(A) whose block is not resident returns MISS (so two loads of a
\* block that was not resident give MISS then HIT).
C2_Step ==
    (Len(calls') = Len(calls) + 1 /\ calls'[Len(calls')].op = "lw") =>
        LET c == calls'[Len(calls')]
        IN  /\ \A i \in 1..Len(calls) :
                   ( /\ calls[i].address = c.address
                     /\ \A k \in (i + 1)..Len(calls) :
                            calls[k].rowIndex # calls[i].rowIndex )
                   => (c.hit = 1 /\ c.rowIndex = calls[i].rowIndex)
            /\ (~Resident(l1Cache, c.address)) => c.hit = 0

C2_RepeatHits == [][C2_Step]_vars

\* a MISS, then an access to another row, then the same address again: HIT
C2_Witness ==
    /\ Len(calls) >= 3
    /\ calls[Len(calls) - 2].op = "lw"
    /\ calls[Len(calls) - 2].hit = 0
    /\ calls[Len(calls) - 1].rowIndex # calls[Len(calls) - 2].rowIndex
    /\ LastCall.op = "lw"
    /\ LastCall.address = calls[Len(calls) - 2].address
    /\ LastCall.hit = 1

\* The reference cache: per row, the tags in most-recently-used order, at most
\* `associativity` of them.  RefRow(n, r) is row r after the first n calls.
RECURSIVE RefRow(_, _)
RefRow(n, r) ==
    IF n = 0 THEN <<>>
    ELSE LET prev == RefRow(n - 1, r)
             t == TagOf(l1Cache, calls[n].address)
         IN  IF RowIndexOf(l1Cache, calls[n].address) # r THEN prev
             ELSE LET moved == <<t>> \o SelectSeq(prev, LAMBDA x : x # t)
                  IN  IF Len(moved) > l1Cache.associativity
                      THEN SubSeq(moved, 1, l1Cache.associativity)
                      ELSE moved

RefHit(n) ==
    LET prev == RefRow(n - 1, RowIndexOf(l1Cache, calls[n].address))
    IN  IF \E k \in 1..Len(prev) : prev[k] = TagOf(l1Cache, calls[n].address)
        THEN 1 ELSE 0

\* C3: on a sequence of loadWord calls the HIT/MISS results are those of a
\* move-to-front LRU cache of the same geometry.
C3_TrueLRU ==
    (\A i \in 1..Len(calls) : calls[i].op = "lw") =>
        \A i \in 1..Len(calls) : calls[i].hit = RefHit(i)

\* The last k calls went to one row with pairwise
\* distinct tags and none of them was a load that hit.
Flooded(cs, k) ==
    /\ Len(cs) >= k
    /\ \A i \in (Len(cs) - k + 1)..Len(cs) :
           /\ cs[i].rowIndex = cs[Len(cs)].rowIndex
           /\ ~(cs[i].op = "lw" /\ cs[i].hit = 1)
           /\ \A j \in (Len(cs) - k + 1)..Len(cs) :
                  i # j => TagOf(l1Cache, cs[i].address) # TagOf(l1Cache, cs[j].address)

\* C4: after `associativity` or more consecutive accesses to one row with
\* pairwise distinct tags and no hit, an access to that row with a further
\* distinct tag replaces exactly the line that holds the tag of the oldest of
\* the last `associativity` accesses, and no other line.
C4_Step ==
    LET k == l1Cache.associativity
        n == Len(calls)
    IN  ( /\ Len(calls') = n + 1
          /\ Flooded(calls, k)
          /\ Flooded(calls', k + 1) ) =>
        LET r == calls'[n + 1].rowIndex
            old == TagOf(l1Cache, calls[n - k + 1].address)
            new == TagOf(l1Cache, calls'[n + 1].address)
        IN  \E s \in 0..(k - 1) :
               /\ l1Cache.rows[r][s].valid
               /\ l1Cache.rows[r][s].tag = old
               /\ l1Cache'.rows[r][s].valid
               /\ l1Cache'.rows[r][s].tag = new
               /\ \A o \in 0..(k - 1) : o # s =>
                      /\ l1Cache'.rows[r][o].valid = l1Cache.rows[r][o].valid
                      /\ l1Cache'.rows[r][o].tag = l1Cache.rows[r][o].tag

C4_FloodFifo == [][C4_Step]_vars

\* a flood of associativity + 1 misses in a 3-way row that began after an
\* earlier call
C4_Witness ==
    /\ l1Cache.associativity = 3
    /\ Len(calls) = 5
    /\ Flooded(calls, 4)
    /\ \E i \in 2..5 : calls[i].op = "sw"
    /\ \E i \in 2..5 : calls[i].op = "lw"

\* C9: loadWord and storeWord report row = (A / B) mod R, within 0..R-1, and
\* use tag = (A / B) / R; tag * R + row is A's block number, so two addresses
\* share (row, tag) exactly when they lie in the same block.
C9_Decode ==
    LET B == l1Cache.blocksize
        R == l1Cache.numRows
    IN  /\ Len(calls) >= 1 =>
            LET A == LastCall.address
                row == LastCall.rowIndex
            IN  /\ row = (A \div B) % R
                /\ row >= 0 /\ row < R
                /\ \E s \in 0..(l1Cache.associativity - 1) :
                       /\ l1Cache.rows[row][s].valid
                       /\ l1Cache.rows[row][s].lru = 0
                       /\ l1Cache.rows[row][s].tag = (A \div B) \div R
        \* the geometry never changes: the decomposition is compared once per
        \* cache object, over the whole address space
        /\ Len(calls) = 1 =>
            /\ \A A \in 0..(MEM_SIZE - 1) :
                   /\ TagOf(l1Cache, A) * R + RowIndexOf(l1Cache, A) = A \div B
                   /\ RowIndexOf(l1Cache, A) \in 0..(R - 1)
            /\ \A A1 \in 0..MaxDecodeAddr, A2 \in 0..MaxDecodeAddr :
                   ( /\ RowIndexOf(l1Cache, A1) = RowIndexOf(l1Cache, A2)
                     /\ TagOf(l1Cache, A1) = TagOf(l1Cache, A2) )
                   <=> (A1 \div B = A2 \div B)

\* a call on a cache with block size 2 and 2 rows, on an address whose row is
\* not the address modulo the row count
C9_Witness ==
    /\ Len(calls) >= 1
    /\ l1Cache.blocksize = 2
    /\ l1Cache.numRows = 2
    /\ LastCall.address = 2
    /\ LastCall.rowIndex = 1

----------------------------------------------------------------------------
(* Properties of one call of loadWord or storeWord, checked under SpecCache *)

\* the call this step makes, its row and tag, and the row before and after
NewCall == calls'[Len(calls')]
LoadStep == Len(calls') = Len(calls) + 1 /\ NewCall.op = "lw"
StoreStep == Len(calls') = Len(calls) + 1 /\ NewCall.op = "sw"
AccessRow == (NewCall.address \div l1Cache.blocksize) % l1Cache.numRows
AccessTag == (NewCall.address \div l1Cache.blocksize) \div l1Cache.numRows
PreRow == l1Cache.rows[AccessRow]
PostRow == l1Cache'.rows[AccessRow]
Slots == 0..(l1Cache.associativity - 1)
HasInvalid == \E s \in Slots : ~PreRow[s].valid

\* the lowest slot among those holding the largest recency before the call
FirstOldest ==
    CHOOSE s \in Slots :
        /\ \A j \in Slots : PreRow[j].lru <= PreRow[s].lru
        /\ \A j \in Slots : j < s => PreRow[j].lru < PreRow[s].lru

FirstInvalid == CHOOSE s \in Slots : (~PreRow[s].valid) /\ \A j \in Slots : j < s => PreRow[j].valid
LastInvalid == CHOOSE s \in Slots : (~PreRow[s].valid) /\ \A j \in Slots : j > s => PreRow[j].valid

\* C14: on a hit the hit line's recency becomes 0 and every other line of the
\* row ages by exactly 1, whatever the slot of the hit line; on a miss every
\* line but the victim ages by exactly 1.
C14_Step ==
    LoadStep =>
        IF NewCall.hit = 1
        THEN \E s \in Slots :
                /\ PreRow[s].valid /\ PreRow[s].tag = AccessTag
                /\ PostRow[s].lru = 0
                /\ \A j \in Slots \ {s} : PostRow[j].lru = PreRow[j].lru + 1
        ELSE \E v \in Slots :
                \A j \in Slots \ {v} : PostRow[j].lru = PreRow[j].lru + 1

C14_UniformAging == [][C14_Step]_vars

\* C15: loadWord returns MISS exactly when the row holds no valid line with the
\* address's tag; on a miss the victim is the lowest slot among those with the
\* largest recency (the miss ages every line by 1, so before or after aging),
\* it ends valid with the tag and recency 0, and every other line keeps its
\* valid flag and tag.
C15_Step ==
    LoadStep =>
        /\ NewCall.hit \in {0, 1}
        /\ NewCall.hit = 0 <=>
               ~(\E s \in Slots : PreRow[s].valid /\ PreRow[s].tag = AccessTag)
        /\ NewCall.hit = 0 =>
               /\ \A j \in Slots : PreRow[j].lru + 1 <= PreRow[FirstOldest].lru + 1
               /\ PostRow[FirstOldest] = [valid |-> TRUE, tag |-> AccessTag, lru |-> 0]
               /\ \A j \in Slots \ {FirstOldest} :
                      /\ PostRow[j].valid = PreRow[j].valid
                      /\ PostRow[j].tag = PreRow[j].tag

C15_LoadMiss == [][C15_Step]_vars

\* three misses on a one-row 2-way cache: the first breaks a tie for slot 0,
\* the third evicts slot 0, the older of two valid lines
C15_Witness ==
    /\ l1Cache.associativity = 2 /\ l1Cache.numRows = 1
    /\ Len(calls) = 3
    /\ \A i \in 1..3 : calls[i].op = "lw" /\ calls[i].hit = 0
    /\ l1Cache.rows[0][0] = [valid |-> TRUE, tag |-> LastCall.address, lru |-> 0]
    /\ l1Cache.rows[0][1].valid
    /\ l1Cache.rows[0][1].tag = calls[2].address

\* C16 as stated: storeWord installs into the first invalid line when the row
\* has one, otherwise into the line with the largest recency (lowest index
\* among equals); every other line ages by 1; the installed line is valid,
\* carries the tag and has recency 0.
C16_Original_Step ==
    StoreStep =>
        LET v == IF HasInvalid THEN FirstInvalid ELSE FirstOldest
        IN  /\ PostRow[v] = [valid |-> TRUE, tag |-> AccessTag, lru |-> 0]
            /\ \A j \in Slots \ {v} :
                   PostRow[j] = [PreRow[j] EXCEPT !.lru = @ + 1]

C16_Original == [][C16_Original_Step]_vars

\* C16, amended: storeWord installs into the last (highest-index) invalid line
\* when the row has one, otherwise into the line with the largest recency
\* (lowest index among equals); every other line ages by 1 and is otherwise
\* unchanged; the installed line is valid, carries the tag and has recency 0;
\* no other row changes.
C16_Step ==
    StoreStep =>
        LET v == IF HasInvalid THEN LastInvalid ELSE FirstOldest
        IN  /\ PostRow[v] = [valid |-> TRUE, tag |-> AccessTag, lru |-> 0]
            /\ \A j \in Slots \ {v} :
                   PostRow[j] = [PreRow[j] EXCEPT !.lru = @ + 1]
            /\ \A r \in 0..(l1Cache.numRows - 1) :
                   r # AccessRow => l1Cache'.rows[r] = l1Cache.rows[r]

C16_StoreInstall == [][C16_Step]_vars

\* three stores on a one-row 2-way cache: the first goes to slot 1, the second
\* to slot 0, the third replaces slot 1, the line with the largest recency
C16_Witness ==
    /\ l1Cache.associativity = 2 /\ l1Cache.numRows = 1
    /\ Len(calls) = 3
    /\ \A i \in 1..3 : calls[i].op = "sw"
    /\ l1Cache.rows[0][0] = [valid |-> TRUE, tag |-> calls[2].address, lru |-> 1]
    /\ l1Cache.rows[0][1] = [valid |-> TRUE, tag |-> calls[3].address, lru |-> 0]
    /\ calls[1].address # calls[3].address

\* the slots of row r of cache c whose recency is 0
FreshSlots(c, r) == { s \in 0..(c.associativity - 1) : c.rows[r][s].lru = 0 }

\* C17: the slot storeWord installs into is the same for every address of the
\* row, whatever its tag; a store whose tag is valid in a line other than the
\* one it installs into leaves two valid lines with that tag.
C17_Step ==
    StoreStep =>
        /\ Cardinality(FreshSlots(l1Cache', AccessRow)) = 1
        /\ \A b \in CallAddrs :
               (b \div l1Cache.blocksize) % l1Cache.numRows = AccessRow =>
                   FreshSlots(StoreWord(l1Cache, b).cache, AccessRow)
                       = FreshSlots(l1Cache', AccessRow)
        /\ \A s \in Slots :
               (PreRow[s].valid /\ PreRow[s].tag = AccessTag /\ PostRow[s].lru # 0) =>
                   Cardinality({ j \in Slots : PostRow[j].valid
                                               /\ PostRow[j].tag = AccessTag }) >= 2

C17_StoreIgnoresTags == [][C17_Step]_vars

\* after a store, a row of a 2-way cache holds two valid lines with one tag
C17_Witness ==
    /\ Len(calls) >= 2
    /\ LastCall.op = "sw"
    /\ l1Cache.associativity = 2
    /\ LET row == l1Cache.rows[LastCall.rowIndex]
       IN  /\ row[0].valid /\ row[1].valid
           /\ row[0].tag = row[1].tag
           /\ row[0].tag = TagOf(l1Cache, LastCall.address)

\* C19: a loadWord miss on a row that still has an invalid line replaces no
\* valid line.
C19_Step ==
    (LoadStep /\ NewCall.hit = 0 /\ HasInvalid) =>
        \A j \in Slots :
            PreRow[j].valid => (PostRow[j].valid /\ PostRow[j].tag = PreRow[j].tag)

C19_LoadFillsFirst == [][C19_Step]_vars

\* C20: a storeWord on a row that still has an invalid line replaces no valid
\* line.
C20_Step ==
    (StoreStep /\ HasInvalid) =>
        \A j \in Slots :
            PreRow[j].valid => (PostRow[j].valid /\ PostRow[j].tag = PreRow[j].tag)

C20_StoreFillsFirst == [][C20_Step]_vars

\* loads of tags 0, 1, 1 on the 3-way cache leave slot 0 valid with the row's
\* largest recency and slot 2 invalid; the store that follows fills slot 2
C20_Witness ==
    /\ l1Cache.associativity = 3
    /\ Len(calls) = 4
    /\ calls[1].op = "lw" /\ calls[2].op = "lw" /\ calls[3].op = "lw"
    /\ calls[3].hit = 1
    /\ LastCall.op = "sw"
    /\ l1Cache.rows[0][0].valid /\ l1Cache.rows[0][0].tag = calls[1].address
    /\ l1Cache.rows[0][0].lru >= l1Cache.rows[0][1].lru
    /\ l1Cache.rows[0][1].valid /\ l1Cache.rows[0][1].tag = calls[2].address
    /\ l1Cache.rows[0][2] = [valid |-> TRUE, tag |-> LastCall.address, lru |-> 0]

----------------------------------------------------------------------------
(* Properties of the machine, checked under Spec *)

\* a step of the fetch-execute loop that executes the fetched word
Executes(op) == steps' = steps + 1 /\ (~isHalt') /\ Opcode(Fetch) = op

\* (base register + sign-extended 7-bit immediate) mod 2^13
ClaimedAddress ==
    LET imm7 == Fetch % 128
    IN  (regs[(Fetch \div 1024) % 8] + (IF imm7 >= 64 THEN imm7 - 128 ELSE imm7)) % 8192

ClaimedRow(c) == (ClaimedAddress \div c.blocksize) % c.numRows

\* the lines the step appended to the log
Emitted == SubSeq(log', Len(log) + 1, Len(log'))

\* C1: after a load-word with a non-zero destination register, that register
\* equals memory[effective address], whatever the cache outcome.
C1_Step ==
    (Executes(4) /\ (Fetch \div 128) % 8 # 0) =>
        regs'[(Fetch \div 128) % 8] = Mem(memory', ClaimedAddress)

C1_LoadResult == [][C1_Step]_vars

\* C5: register 0 equals 0 in every state observed between instructions.
C5_RegZero == regs[0] = 0

\* addi, slti and lw with destination field 0 have executed, each computing a
\* non-zero value for it
C5_Witness ==
    /\ steps = 3
    /\ pc = 3
    /\ Mem(memory, 0) = IType(1, 1, 0, 127)
    /\ Mem(memory, 1) = IType(7, 0, 0, 1)
    /\ Mem(memory, 2) = IType(4, 1, 0, 1)

\* C6: the machine halts exactly when the fetched word is a jump (opcode 010)
\* whose 13-bit immediate equals pc; that step changes neither pc, registers,
\* memory nor caches and emits nothing; nothing executes after the halt.
C6_Step ==
    IF isHalt
    THEN UNCHANGED vars
    ELSE /\ isHalt' <=> ((Fetch \div 8192) % 8 = 2 /\ Fetch % 8192 = pc)
         /\ isHalt' => UNCHANGED <<pc, regs, memory, l1Cache, l2Cache, log>>

C6_HaltOnSelfJump == [][C6_Step]_vars

\* halted by the self-jump at address 1, reached after an instruction that
\* wrote register 7 (a jump-and-link or an or) executed without halting
C6_Witness ==
    /\ isHalt
    /\ pc = 1
    /\ regs[7] # 0
    /\ Mem(memory, 1) = JType(2, 1)

\* C7: a load-word emits one L1 event (HIT or MISS) and then one L2 event iff
\* L1 missed and an L2 exists; a store-word emits one L1 SW event and then one
\* L2 SW event iff an L2 exists.  Each event carries the pc of the instruction,
\* the effective address and the row index of that level.
C7_Step ==
    /\ Executes(4) =>
          /\ SubSeq(log', 1, Len(log)) = log
          /\ Len(Emitted) >= 1
          /\ Emitted[1].cache = "L1"
          /\ Emitted[1].status \in {"HIT", "MISS"}
          /\ Emitted[1].pc = pc
          /\ Emitted[1].addr = ClaimedAddress
          /\ Emitted[1].row = ClaimedRow(l1Cache)
          /\ IF Emitted[1].status = "MISS" /\ l2Cache # NoCache
             THEN /\ Len(Emitted) = 2
                  /\ Emitted[2].cache = "L2"
                  /\ Emitted[2].status \in {"HIT", "MISS"}
                  /\ Emitted[2].pc = pc
                  /\ Emitted[2].addr = ClaimedAddress
                  /\ Emitted[2].row = ClaimedRow(l2Cache)
             ELSE Len(Emitted) = 1
    /\ Executes(5) =>
          /\ SubSeq(log', 1, Len(log)) = log
          /\ Len(Emitted) >= 1
          /\ Emitted[1] = [cache |-> "L1", status |-> "SW", pc |-> pc,
                           addr |-> ClaimedAddress, row |-> ClaimedRow(l1Cache)]
          /\ IF l2Cache # NoCache
             THEN /\ Len(Emitted) = 2
                  /\ Emitted[2] = [cache |-> "L2", status |-> "SW", pc |-> pc,
                                   addr |-> ClaimedAddress, row |-> ClaimedRow(l2Cache)]
             ELSE Len(Emitted) = 1

C7_Events == [][C7_Step]_vars

\* a load that missed in L1 and hit in L2, after a load that hit in L1
C7_Witness ==
    /\ Len(log) >= 3
    /\ \E i \in 1..(Len(log) - 1) :
          /\ log[i].cache = "L1" /\ log[i].status = "MISS"
          /\ log[i + 1].cache = "L2" /\ log[i + 1].status = "HIT"
          /\ log[i + 1].pc = log[i].pc

\* C8: a jump-and-link at address p sets register 7 to p+1 (16 bits) and pc to
\* its 13-bit target; a jump-register on register 7 sets pc to the value
\* register 7 holds, so to p+1 while register 7 has not been overwritten.
C8_Step ==
    /\ Executes(3) => (regs'[7] = (pc + 1) % 65536 /\ pc' = Fetch % 8192)
    /\ (Executes(0) /\ Fetch % 16 = 8 /\ (Fetch \div 1024) % 8 = 7) => pc' = regs[7]
    /\ ( /\ steps' = steps + 1
         /\ ~(Opcode(Fetch) = 3)
         /\ ~(Opcode(Fetch) = 0 /\ Fetch % 16 \in 0..4 /\ (Fetch \div 16) % 8 = 7)
         /\ ~(Opcode(Fetch) \in {1, 4, 7} /\ (Fetch \div 128) % 8 = 7) )
       => regs'[7] = regs[7]

C8_CallReturn == [][C8_Step]_vars

\* the jump-and-link at address 0 was followed by the jump-register at its
\* target, which returned to address 1
C8_Witness ==
    /\ steps = 2
    /\ pc = 1
    /\ regs[7] = 1
    /\ Mem(memory, 0) = JType(3, 2)
    /\ Mem(memory, 2) = RType(7, 0, 0, 8)

\* C10: a store-word writes the source register's value to
\* memory[(base + sign-extended imm7) mod 2^13] and no other cell, and issues
\* storeWord on L1 and, when an L2 exists, on L2, whether or not the address
\* was resident.
C10_Step ==
    Executes(5) =>
        /\ Mem(memory', ClaimedAddress) = regs[(Fetch \div 128) % 8]
        /\ \A a \in (DOMAIN memory) \cup (DOMAIN memory') :
               a # ClaimedAddress => Mem(memory', a) = Mem(memory, a)
        /\ \E s \in 0..(l1Cache.associativity - 1) :
               l1Cache'.rows[ClaimedRow(l1Cache)][s] =
                   [valid |-> TRUE, lru |-> 0,
                    tag |-> (ClaimedAddress \div l1Cache.blocksize) \div l1Cache.numRows]
        /\ \E i \in 1..Len(Emitted) :
               Emitted[i].cache = "L1" /\ Emitted[i].status = "SW"
        /\ l2Cache # NoCache =>
               /\ \E s \in 0..(l2Cache.associativity - 1) :
                      l2Cache'.rows[ClaimedRow(l2Cache)][s] =
                          [valid |-> TRUE, lru |-> 0,
                           tag |-> (ClaimedAddress \div l2Cache.blocksize)
                                       \div l2Cache.numRows]
               /\ \E i \in 1..Len(Emitted) :
                      Emitted[i].cache = "L2" /\ Emitted[i].status = "SW"

C10_StoreWrites == [][C10_Step]_vars

\* two stores of 5 to address 8191 in the two-level machine: the second
\* finds the address resident in both levels
C10_Witness ==
    /\ l2Cache # NoCache
    /\ Mem(memory, 8191) = 5
    /\ Len(log) = 4
    /\ \A i \in 1..4 : log[i].status = "SW" /\ log[i].addr = 8191

\* C11 as stated: set-less-than-immediate writes 1 to a non-zero destination
\* register iff the source register is less than the 7-bit immediate taken as
\* an unsigned value in 0..127, and 0 otherwise.
C11_Original_Step ==
    (Executes(7) /\ (Fetch \div 128) % 8 # 0) =>
        regs'[(Fetch \div 128) % 8] =
            (IF regs[(Fetch \div 1024) % 8] < Fetch % 128 THEN 1 ELSE 0)

C11_Original == [][C11_Original_Step]_vars

\* C11 amended: set-less-than-immediate writes 1 to a non-zero destination
\* register iff the source register is less, as an unsigned 16-bit value, than
\* the 7-bit immediate sign-extended to 16 bits (imm7 when bit 6 is clear,
\* 65408 + imm7 when it is set), and 0 otherwise.
C11_Step ==
    (Executes(7) /\ (Fetch \div 128) % 8 # 0) =>
        regs'[(Fetch \div 128) % 8] =
            (IF regs[(Fetch \div 1024) % 8] <
                    (IF Fetch % 128 >= 64 THEN 65408 + (Fetch % 128) ELSE Fetch % 128)
             THEN 1 ELSE 0)

C11_SltiSignExtended == [][C11_Step]_vars

\* slti $2, $1, 127 executed with $1 >= 127 and wrote 1
C11_Witness ==
    /\ steps = 2
    /\ pc = 2
    /\ Mem(memory, 0) = IType(4, 0, 1, 0)
    /\ Mem(memory, 1) = IType(7, 1, 2, 127)
    /\ regs[1] >= 127
    /\ regs[2] = 1

\* the events of the step that name the L2 cache
EmittedL2 == { i \in 1..Len(Emitted) : Emitted[i].cache = "L2" }

\* C18: a load-word that hits in L1 leaves L2 unchanged; a load-word that
\* misses in L1 performs exactly one loadWord of L2 on the same effective
\* address, decoded with L2's block size and row count, and changes L2 only in
\* the row the address maps to in L2.
C18_Step ==
    Executes(4) =>
        /\ Resident(l1Cache, ClaimedAddress) =>
               (l2Cache' = l2Cache /\ EmittedL2 = {})
        /\ ((~Resident(l1Cache, ClaimedAddress)) /\ l2Cache # NoCache) =>
               /\ Cardinality(EmittedL2) = 1
               /\ \A i \in EmittedL2 :
                      /\ Emitted[i].addr = ClaimedAddress
                      /\ Emitted[i].row = ClaimedRow(l2Cache)
                      /\ Emitted[i].status =
                             (IF Resident(l2Cache, ClaimedAddress) THEN "HIT" ELSE "MISS")
               /\ l2Cache' = LoadWord(l2Cache, ClaimedAddress).cache
               /\ \A r \in 0..(l2Cache.numRows - 1) :
                      r # ClaimedRow(l2Cache) => l2Cache'.rows[r] = l2Cache.rows[r]
               /\ l2Cache'.rows[ClaimedRow(l2Cache)] # l2Cache.rows[ClaimedRow(l2Cache)]

C18_L2OnMissOnly == [][C18_Step]_vars

\* two levels, L2 with 2 rows: a load hit in L1, and loads that missed in L1
\* have filled a line in each row of L2
C18_Witness ==
    /\ l2Cache # NoCache
    /\ l2Cache.numRows = 2
    /\ \E i \in 1..Len(log) : log[i].cache = "L1" /\ log[i].status = "HIT"
    /\ \E i \in 1..Len(log) : log[i].cache = "L2" /\ log[i].row = 1
    /\ \A i \in 1..Len(log) : log[i].status # "SW"
    /\ \E s \in 0..1 : l2Cache.rows[0][s].valid
    /\ \E s \in 0..1 : l2Cache.rows[1][s].valid

----------------------------------------------------------------------------
(* Properties of the start-up and the end of the run *)

\* the row count of cache c is zero or size / (associativity * blocksize) is
\* not an integer
Malformed(c) ==
    c # NoCache /\ (c.numRows = 0 \/ c.numRows * c.associativity * c.blocksize # c.cacheSize)

\* C12: with a cache configuration whose row count is zero or not an integer
\* nothing executes: no fetch, no cache access, no register, pc or memory
\* change.
C12_Rejected ==
    (Malformed(l1Cache) \/ Malformed(l2Cache)) =>
        /\ steps = 0
        /\ pc = 0
        /\ (~isHalt)
        /\ log = <<>>
        /\ \A r \in 0..(NUM_REGS - 1) : regs[r] = 0
        /\ \A a \in DOMAIN memory : a < ProgLen /\ memory[a] \in Palette

\* C13: in the halted state the final machine state (pc, registers, memory)
\* has been emitted exactly once, after every per-access event.  (The halted
\* state is the state at exit: main returns right after the loop.)
C13_FinalState ==
    isHalt =>
        /\ Len(log) >= 1
        /\ log[Len(log)] = FinalStateLine(pc, regs, memory)
        /\ \A i \in 1..(Len(log) - 1) : log[i].cache # "Final state"

----------------------------------------------------------------------------
(* The row after a call of loadWord or storeWord, checked under SpecCache *)

\* C21: after any loadWord or storeWord the accessed row has exactly one line
\* with recency 0, that line is valid and carries the address's tag, every
\* other line of the row has recency >= 1, every line of every other row is
\* unchanged, and no line that was valid before the call is invalid after it.
C21_Step ==
    (LoadStep \/ StoreStep) =>
        /\ Cardinality({ s \in Slots : PostRow[s].lru = 0 }) = 1
        /\ \A s \in Slots :
               IF PostRow[s].lru = 0
               THEN PostRow[s].valid /\ PostRow[s].tag = AccessTag
               ELSE PostRow[s].lru >= 1
        /\ \A r \in 0..(l1Cache.numRows - 1) :
               r # AccessRow => l1Cache'.rows[r] = l1Cache.rows[r]
        /\ \A r \in 0..(l1Cache.numRows - 1) : \A s \in Slots :
               l1Cache.rows[r][s].valid => l1Cache'.rows[r][s].valid

C21_RowAfterAccess == [][C21_Step]_vars

\* a 2-way cache with 2 rows: a load in row 1, two stores of one address of
\* row 0 (both lines of row 0 then carry its tag), and a load of it that hits:
\* row 0 has one line with recency 0, row 1 still holds the first load's line
C21_Witness ==
    /\ l1Cache.associativity = 2 /\ l1Cache.numRows = 2
    /\ Len(calls) = 4
    /\ calls[1].op = "lw" /\ calls[1].rowIndex = 1
    /\ calls[2].op = "sw" /\ calls[2].rowIndex = 0
    /\ calls[3].op = "sw" /\ calls[3].address = calls[2].address
    /\ calls[4].op = "lw" /\ calls[4].address = calls[2].address /\ calls[4].hit = 1
    /\ l1Cache.rows[0][0] = [valid |-> TRUE, tag |-> TagOf(l1Cache, calls[4].address), lru |-> 0]
    /\ l1Cache.rows[0][1].valid
    /\ l1Cache.rows[0][1].tag = l1Cache.rows[0][0].tag
    /\ l1Cache.rows[0][1].lru >= 1
    /\ l1Cache.rows[1][0] = [valid |-> TRUE, tag |-> TagOf(l1Cache, calls[1].address), lru |-> 0]

====
